---- MODULE Spec2Model ----
(***************************************************************************)
(* A model of util.go of package grab: the filename resolver               *)
(* (guessFilename, normalizeFilename), the directory provisioner (mkdirp), *)
(* the timestamp synchronizer (setLastModified) and the streaming checksum *)
(* (checksum).                                                             *)
(*                                                                         *)
(* Strings are sequences of one-character strings; the null byte is the    *)
(* symbol NUL.  Paths follow the Unix rules of path.Clean, filepath.Base   *)
(* and filepath.Dir (separator '/', no volume names).                      *)
(***************************************************************************)
EXTENDS Integers, Sequences, FiniteSets, TLC

VARIABLES
    resp,       \* the http.Response handed to the filename resolver
    nfRet,      \* what normalizeFilename returned for resp's URL path
    gRet,       \* what guessFilename returned for resp
    fs,         \* the directory tree: the kind of every node
    req,        \* the destination path mkdirp is called with
    prior,      \* the outcome of the last mkdirp call and the tree before it
    reran,      \* whether the call before it returned nil, the tree unchanged since
    touched,    \* whether the tree changed since the last mkdirp call
    lmHeader,   \* the Last-Modified header of the response
    lmFile,     \* the local file: whether it is there, its owner, its times
    lmRet,      \* what setLastModified returned, and the file before the call
    sumFile,    \* the file checksum reads: whether it can be opened, its bytes
    hst,        \* for every hash accumulator, the bytes written to it so far
    pc,         \* where the checksum call stands
    call,       \* the running call: its accumulator, the accumulator's state at
                \* the call, whether Open succeeded, the read offset, what
                \* copy returned, how often Close was called
    cancelled,  \* whether the context of the call is cancelled
    sumB,       \* the named result b of checksum
    sumErr,     \* the named result err of checksum
    handles,    \* the number of open file handles
    prev,       \* the previous call: its accumulator's state at the call, its results
    calls       \* the number of calls returned

nameVars == <<resp, nfRet, gRet>>
dirVars == <<fs, req, prior, reran, touched>>

modVars == <<lmHeader, lmFile, lmRet>>

sumVars ==
    <<sumFile, hst, pc, call, cancelled, sumB, sumErr, handles, prev, calls>>

vars == <<nameVars, dirVars, modVars, sumVars>>

(***************************************************************************)
(* Bounds                                                                  *)
(***************************************************************************)
MaxLen == 4         \* longest enumerated candidate filename
MaxParams == 2      \* most parameters of an enumerated Content-Disposition
MaxSegs == 3        \* most path elements of an enumerated destination path
MaxFile == 3        \* most bytes of an enumerated file
MaxSumCalls == 2    \* most checksum calls in one run

(***************************************************************************)
(* Strings                                                                 *)
(***************************************************************************)
NUL == "NUL"
Chars == {"a", ".", "/", NUL}

SeqsUpTo(S, n) == UNION {[1..k -> S] : k \in 0..n}

HasSuffix(s, c) == Len(s) > 0 /\ s[Len(s)] = c
Contains(s, c) == \E i \in 1..Len(s) : s[i] = c

\* go: path.Clean, the loop over the input with the lazybuf `out`;
\* r is the (1-based) read position, dotdot the length of the prefix of out
\* that ".." may not back over.
RECURSIVE CleanLoop(_, _, _, _, _)
CleanLoop(p, rooted, r, out, dotdot) ==
    LET n == Len(p) IN
    IF r > n THEN out
    ELSE IF p[r] = "/" THEN
        CleanLoop(p, rooted, r + 1, out, dotdot)
    ELSE IF p[r] = "." /\ (r = n \/ p[r + 1] = "/") THEN
        CleanLoop(p, rooted, r + 1, out, dotdot)
    ELSE IF p[r] = "." /\ p[r + 1] = "." /\ (r + 1 = n \/ p[r + 2] = "/") THEN
        IF Len(out) > dotdot THEN
            LET stops == {w \in dotdot..(Len(out) - 1) :
                              w = dotdot \/ out[w + 1] = "/"}
                w == CHOOSE x \in stops : \A y \in stops : y <= x
            IN  CleanLoop(p, rooted, r + 2, SubSeq(out, 1, w), dotdot)
        ELSE IF ~rooted THEN
            LET o2 == (IF Len(out) > 0 THEN out \o <<"/">> ELSE out)
                          \o <<".", ".">>
            IN  CleanLoop(p, rooted, r + 2, o2, Len(o2))
        ELSE CleanLoop(p, rooted, r + 2, out, dotdot)
    ELSE
        LET sep == IF (rooted /\ Len(out) # 1) \/ (~rooted /\ Len(out) # 0)
                   THEN <<"/">> ELSE <<>>
            ends == {e \in r..n : e = n \/ p[e + 1] = "/"}
            e == CHOOSE x \in ends : \A y \in ends : x <= y
        IN  CleanLoop(p, rooted, e + 1, out \o sep \o SubSeq(p, r, e), dotdot)

\* a sanitizer whose path is never cleaned
Clean_Skipped(p) == p

\* go: path.Clean
Clean(p) ==
    IF p = <<>> THEN <<".">>
    ELSE LET rooted == p[1] = "/"
             out == IF rooted THEN CleanLoop(p, TRUE, 2, <<"/">>, 1)
                    ELSE CleanLoop(p, FALSE, 1, <<>>, 0)
         IN  IF out = <<>> THEN <<".">> ELSE out

\* go: the loop of filepath.Base that drops trailing separators
RECURSIVE StripTrailingSlashes(_)
StripTrailingSlashes(p) ==
    IF Len(p) > 0 /\ p[Len(p)] = "/"
    THEN StripTrailingSlashes(SubSeq(p, 1, Len(p) - 1))
    ELSE p

\* the (1-based) position of the last '/' of p, 0 when there is none
LastSlash(p) ==
    LET at == {i \in 1..Len(p) : p[i] = "/"}
    IN  IF at = {} THEN 0 ELSE CHOOSE i \in at : \A j \in at : j <= i

\* The pieces of p between its separators
RECURSIVE SplitSlash(_)
SplitSlash(p) ==
    LET at == {i \in 1..Len(p) : p[i] = "/"} IN
    IF at = {} THEN <<p>>
    ELSE LET i == CHOOSE x \in at : \A y \in at : x <= y
         IN  <<SubSeq(p, 1, i - 1)>> \o SplitSlash(SubSeq(p, i + 1, Len(p)))

\* go: filepath.Base
Base(p) ==
    IF p = <<>> THEN <<".">>
    ELSE LET q == StripTrailingSlashes(p)
             t == SubSeq(q, LastSlash(q) + 1, Len(q))
         IN  IF t = <<>> THEN <<"/">> ELSE t

\* go: filepath.Dir
Dir(p) == Clean(SubSeq(p, 1, LastSlash(p)))

\* go: filepath.Join of a directory and one element
Join(dir, name) == Clean(dir \o <<"/">> \o name)

(***************************************************************************)
(* normalizeFilename                                                       *)
(***************************************************************************)
ErrNoFilename == "ErrNoFilename"
NoErr == "nil"

Failed == [name |-> <<>>, err |-> ErrNoFilename]
NotCalled == [name |-> <<>>, err |-> "not called"]

\* a sanitizer that lets a trailing separator through
normalizeFilename_NoSuffixCheck(filename) ==
    IF filename = <<>> \/ Contains(filename, NUL)
    THEN Failed
    ELSE LET f == Base(Clean(<<"/">> \o filename))
         IN  IF f = <<>> \/ f = <<".">> \/ f = <<"/">>
             THEN Failed
             ELSE [name |-> f, err |-> NoErr]

normalizeFilename(filename) ==
    IF filename = <<>> \/ HasSuffix(filename, "/") \/ Contains(filename, NUL)
    THEN Failed
    ELSE LET f == Base(Clean(<<"/">> \o filename))
         IN  IF f = <<>> \/ f = <<".">> \/ f = <<"/">>
             THEN Failed
             ELSE [name |-> f, err |-> NoErr]

(***************************************************************************)
(* guessFilename                                                           *)
(***************************************************************************)
\* A Content-Disposition header value, already split at ';': the media type
\* and the parameters in the order written.  present = FALSE is the header
\* for which Header.Get returns "".  A parameter with ok = FALSE is one that
\* consumeMediaParam cannot read (no '=', a bad token, an open quote).
ParamKeys == {"filename", "FILENAME", "name"}
ToLower(k) == IF k = "FILENAME" THEN "filename" ELSE k

NoHeader == [present |-> FALSE, mediatype |-> "", params |-> <<>>]

\* go: mime.ParseMediaType, the loop over the parameters: an unreadable
\* parameter or a repeated name is an error, names are lower-cased.
RECURSIVE ParseParams(_, _, _)
ParseParams(ps, i, acc) ==
    IF i > Len(ps) THEN [ok |-> TRUE, params |-> acc]
    ELSE IF ~ps[i].ok THEN [ok |-> FALSE, params |-> {}]
    ELSE LET key == ToLower(ps[i].key) IN
         IF \E kv \in acc : kv[1] = key THEN [ok |-> FALSE, params |-> {}]
         ELSE ParseParams(ps, i + 1, acc \cup {<<key, ps[i].val>>})

\* go: mime.ParseMediaType as guessFilename calls it
ParseMediaType(cd) ==
    IF cd.mediatype = "" THEN [ok |-> FALSE, params |-> {}]
    ELSE ParseParams(cd.params, 1, {})

\* go: params["filename"], "" when the map has no such key
ParamValue(params, key) ==
    IF \E kv \in params : kv[1] = key
    THEN (CHOOSE kv \in params : kv[1] = key)[2]
    ELSE <<>>

\* a resolver that prefers the URL path to the header
guessFilename_UrlFirst(r) ==
    LET parsed == ParseMediaType(r.cd)
        hName == ParamValue(parsed.params, "filename")
        uFilename == normalizeFilename(r.path)
    IN  IF uFilename.err = NoErr \/ ~r.cd.present \/ ~parsed.ok \/ hName = <<>>
        THEN uFilename
        ELSE normalizeFilename(hName)

guessFilename(r) ==
    LET filename == r.path
        parsed == ParseMediaType(r.cd)
        hName == ParamValue(parsed.params, "filename")
        hFilename == normalizeFilename(hName)
    IN  IF r.cd.present /\ parsed.ok /\ hName # <<>> /\ hFilename.err = NoErr
        THEN hFilename
        ELSE normalizeFilename(filename)

(***************************************************************************)
(* The responses the filename resolver is run on                           *)
(***************************************************************************)
Strings == SeqsUpTo(Chars, MaxLen)

PasswdExample ==
    <<".", ".", "/", ".", ".", "/", "e", "t", "c", "/",
      "p", "a", "s", "s", "w", "d">>
CTxtExample == <<"/", "a", "/", "b", "/", "c", ".", "t", "x", "t">>
Examples == {PasswdExample, CTxtExample, <<"a", "/">>, <<"a", NUL, "b">>}

Attachment(name) ==
    [present |-> TRUE, mediatype |-> "attachment",
     params |-> <<[key |-> "filename", val |-> name, ok |-> TRUE]>>]

\* every enumerated string as the URL path, and as the header's filename
NameResps ==
    {[path |-> s, cd |-> NoHeader] : s \in Strings \cup Examples}
        \cup {[path |-> <<>>, cd |-> Attachment(s)] : s \in Strings \cup Examples}

HeaderNames == {<<>>, <<"b">>, <<"b", "/">>}
UrlPaths == {<<>>, <<"/", "a">>, <<"/", "a", "/">>}
Params == [key : ParamKeys, val : HeaderNames, ok : BOOLEAN]
Headers ==
    {NoHeader} \cup [present : {TRUE}, mediatype : {"attachment", ""},
                     params : SeqsUpTo(Params, MaxParams)]

\* every enumerated header against URL paths that sanitize and that do not
GuessResps == [path : UrlPaths, cd : Headers]

\* the sanitizer run on the URL path of the response
Normalize ==
    /\ nfRet = NotCalled
    /\ nfRet' = normalizeFilename(resp.path)
    /\ UNCHANGED <<resp, gRet, dirVars, modVars, sumVars>>

\* the resolver run on the response
Guess ==
    /\ gRet = NotCalled
    /\ gRet' = guessFilename(resp)
    /\ UNCHANGED <<resp, nfRet, dirVars, modVars, sumVars>>

NameNext == Normalize \/ Guess

(***************************************************************************)
(* Claims about the filename resolver                                      *)
(***************************************************************************)
TargetDirs == {<<"/">>, <<".">>, <<"d">>, <<"/", "d">>, <<".", ".">>}

SafeName(ret) ==
    ret.err = NoErr =>
        /\ ret.name # <<>>
        /\ ~Contains(ret.name, "/")
        /\ ~Contains(ret.name, NUL)
        /\ ret.name \notin {<<".">>, <<".", ".">>, <<"/">>}
        /\ \A d \in TargetDirs :
               /\ Dir(Join(d, ret.name)) = Clean(d)
               /\ Base(Join(d, ret.name)) = ret.name

\* C1: a name returned without error by normalizeFilename or guessFilename is
\* non-empty, has no '/' and no null byte, is none of ".", "..", "/", and
\* joined to a target directory names an entry of that very directory.
C1_ResolvedNameIsSafe == SafeName(nfRet) /\ SafeName(gRet)

C1_Witness ==
    /\ resp.cd = Attachment(<<".", ".", "/", "a">>)
    /\ gRet = [name |-> <<"a">>, err |-> NoErr]

\* The directory stack left by walking the pieces from the root
RECURSIVE Walk(_, _)
Walk(segs, stack) ==
    IF segs = <<>> THEN stack
    ELSE LET seg == Head(segs) IN
         IF seg = <<>> \/ seg = <<".">> THEN Walk(Tail(segs), stack)
         ELSE IF seg = <<".", ".">>
         THEN Walk(Tail(segs),
                   IF stack = <<>> THEN stack
                   ELSE SubSeq(stack, 1, Len(stack) - 1))
         ELSE Walk(Tail(segs), Append(stack, seg))

\* The last path component of the cleaned path "/" + s
LastComponent(s) ==
    LET stack == Walk(SplitSlash(<<"/">> \o s), <<>>)
    IN  IF stack = <<>> THEN <<"/">> ELSE stack[Len(stack)]

\* C2: normalizeFilename(s) fails with ErrNoFilename and an empty name exactly
\* when s is empty, ends in '/', holds a null byte, or the last component of
\* the cleaned "/" + s is empty, "." or "/"; otherwise it returns that last
\* component ("../../etc/passwd" gives "passwd", "/a/b/c.txt" gives "c.txt").
C2_NormalizeExact ==
    nfRet # NotCalled =>
        LET s == resp.path
            last == LastComponent(s)
            rejected == \/ s = <<>>
                        \/ HasSuffix(s, "/")
                        \/ Contains(s, NUL)
                        \/ last \in {<<>>, <<".">>, <<"/">>}
        IN  /\ rejected => nfRet = Failed
            /\ ~rejected => nfRet = [name |-> last, err |-> NoErr]
            /\ s \in {<<>>, <<"a", "/">>, <<"a", NUL, "b">>} => nfRet = Failed
            /\ s = PasswdExample => nfRet.name = <<"p", "a", "s", "s", "w", "d">>
            /\ s = CTxtExample => nfRet.name = <<"c", ".", "t", "x", "t">>

C2_Witness ==
    /\ resp.path = PasswdExample
    /\ nfRet = [name |-> <<"p", "a", "s", "s", "w", "d">>, err |-> NoErr]

\* The header reads as a media type with parameters: it is there, has a media
\* type, every parameter is readable and no (lower-cased) name repeats
HeaderParses(cd) ==
    /\ cd.present
    /\ cd.mediatype # ""
    /\ \A i \in 1..Len(cd.params) : cd.params[i].ok
    /\ \A i, j \in 1..Len(cd.params) :
           ToLower(cd.params[i].key) = ToLower(cd.params[j].key) => i = j

\* The values the header gives its filename parameter
HeaderFilenames(cd) ==
    {cd.params[i].val : i \in {j \in 1..Len(cd.params) :
                                   ToLower(cd.params[j].key) = "filename"}}

\* C3: the header's filename wins whenever the header parses, the filename
\* parameter is non-empty and sanitizes; in every other case the result is
\* what sanitizing the URL path gives; ErrNoFilename means both failed.
C3_HeaderPrecedence ==
    gRet # NotCalled =>
        LET cd == resp.cd
            usable == {v \in HeaderFilenames(cd) :
                          /\ HeaderParses(cd)
                          /\ v # <<>>
                          /\ normalizeFilename(v).err = NoErr}
        IN  /\ \A v \in usable : gRet = normalizeFilename(v)
            /\ usable = {} => gRet = normalizeFilename(resp.path)
            /\ gRet.err # NoErr =>
                   /\ gRet = Failed
                   /\ usable = {}
                   /\ normalizeFilename(resp.path).err = ErrNoFilename

C3_Witness ==
    /\ resp.path = <<"/", "a">>
    /\ HeaderParses(resp.cd)
    /\ Len(resp.cd.params) = MaxParams
    /\ <<"b">> \in HeaderFilenames(resp.cd)
    /\ gRet = [name |-> <<"b">>, err |-> NoErr]

(***************************************************************************)
(* mkdirp                                                                  *)
(***************************************************************************)
\* The tree below the working directory, which is the root: a node is the
\* sequence of names leading to it, and is absent ("none"), a regular file,
\* a directory ("dir"), a directory without write permission ("rodir") or a
\* directory without search permission ("nxdir").  There are no symbolic
\* links.  The root is a directory with every permission.
Names == {<<"a">>}
Depth == MaxSegs - 1
Nodes == UNION {[1..k -> Names] : k \in 1..Depth}
Kinds == {"none", "file", "dir", "rodir", "nxdir"}
DirKinds == {"dir", "rodir", "nxdir"}

Parent(node) == SubSeq(node, 1, Len(node) - 1)

KindOf(f, node) ==
    IF node = <<>> THEN "dir"
    ELSE IF node \in Nodes THEN f[node]
    ELSE "none"

\* nothing lies below a node that is not a directory
Consistent(f) ==
    \A n \in Nodes : f[n] # "none" => KindOf(f, Parent(n)) \in DirKinds

FSStates == {f \in [Nodes -> Kinds] : Consistent(f)}

\* The node a cleaned path names: "." and ".." elements name the root itself
RECURSIVE NamesOf(_)
NamesOf(pieces) ==
    IF pieces = <<>> THEN <<>>
    ELSE IF Head(pieces) \in {<<>>, <<".">>, <<".", ".">>}
    THEN NamesOf(Tail(pieces))
    ELSE <<Head(pieces)>> \o NamesOf(Tail(pieces))

Resolve(dir) == NamesOf(SplitSlash(dir))

\* The first directory on the way to node that cannot be passed:
\* the error of the path walk, "nil" when every ancestor can be searched
WalkErr(f, node) ==
    LET blocked == {k \in 1..(Len(node) - 1) :
                        KindOf(f, SubSeq(node, 1, k)) # "dir"
                        /\ KindOf(f, SubSeq(node, 1, k)) # "rodir"}
    IN  IF blocked = {} THEN "nil"
        ELSE LET k == CHOOSE x \in blocked : \A y \in blocked : x <= y
                 kind == KindOf(f, SubSeq(node, 1, k))
             IN  CASE kind = "none" -> "ENOENT"
                   [] kind = "file" -> "ENOTDIR"
                   [] kind = "nxdir" -> "EACCES"

\* go: os.Stat
Stat(f, node) ==
    LET werr == WalkErr(f, node) IN
    IF werr # "nil" THEN [err |-> werr, isDir |-> FALSE]
    ELSE IF KindOf(f, node) = "none" THEN [err |-> "ENOENT", isDir |-> FALSE]
    ELSE [err |-> "nil", isDir |-> KindOf(f, node) \in DirKinds]

\* go: os.IsNotExist
IsNotExist(err) == err = "ENOENT"

\* go: os.Mkdir
Mkdir(f, node) ==
    LET werr == WalkErr(f, node) IN
    IF werr # "nil" THEN [err |-> werr, fs |-> f]
    ELSE IF KindOf(f, node) # "none" THEN [err |-> "EEXIST", fs |-> f]
    ELSE IF KindOf(f, Parent(node)) # "dir" THEN [err |-> "EACCES", fs |-> f]
    ELSE [err |-> "nil", fs |-> [f EXCEPT ![node] = "dir"]]

\* go: os.MkdirAll
RECURSIVE MkdirAll(_, _)
MkdirAll(f, node) ==
    LET st == Stat(f, node) IN
    IF st.err = "nil"
    THEN IF st.isDir THEN [err |-> "nil", fs |-> f]
         ELSE [err |-> "ENOTDIR", fs |-> f]
    ELSE LET up == IF Len(node) > 1 THEN MkdirAll(f, Parent(node))
                   ELSE [err |-> "nil", fs |-> f]
         IN  IF up.err # "nil" THEN up
             ELSE LET made == Mkdir(up.fs, node)
                      again == Stat(made.fs, node)
                  IN  IF made.err # "nil" /\ again.err = "nil" /\ again.isDir
                      THEN [err |-> "nil", fs |-> made.fs]
                      ELSE made

ErrChecking == "error checking destination directory"
ErrCreating == "error creating destination directory"
Panic == "panic: destination path is not directory"

\* a provisioner that reports success whatever MkdirAll returns
mkdirp_IgnoreCreateError(path, f) ==
    LET node == Resolve(Dir(path))
        st == Stat(f, node)
    IN  IF st.err # "nil"
        THEN IF ~IsNotExist(st.err) THEN [out |-> ErrChecking, fs |-> f]
             ELSE [out |-> NoErr, fs |-> MkdirAll(f, node).fs]
        ELSE IF ~st.isDir THEN [out |-> Panic, fs |-> f]
        ELSE [out |-> NoErr, fs |-> f]

\* a provisioner that creates the directory on any inspection error
mkdirp_NoIsNotExist(path, f) ==
    LET node == Resolve(Dir(path))
        st == Stat(f, node)
    IN  IF st.err # "nil"
        THEN LET r == MkdirAll(f, node) IN
             IF r.err # "nil" THEN [out |-> ErrCreating, fs |-> r.fs]
             ELSE [out |-> NoErr, fs |-> r.fs]
        ELSE IF ~st.isDir THEN [out |-> Panic, fs |-> f]
        ELSE [out |-> NoErr, fs |-> f]

\* out is the returned error, or Panic when the call does not return
mkdirp(path, f) ==
    LET dir == Dir(path)
        node == Resolve(dir)
        st == Stat(f, node)
    IN  IF st.err # "nil"
        THEN IF ~IsNotExist(st.err) THEN [out |-> ErrChecking, fs |-> f]
             ELSE LET r == MkdirAll(f, node) IN
                  IF r.err # "nil" THEN [out |-> ErrCreating, fs |-> r.fs]
                  ELSE [out |-> NoErr, fs |-> r.fs]
        ELSE IF ~st.isDir THEN [out |-> Panic, fs |-> f]
        ELSE [out |-> NoErr, fs |-> f]

\* Destination paths: up to MaxSegs elements joined by separators; an empty
\* first element makes the path absolute
Segs == {<<>>, <<"a">>, <<".">>, <<".", ".">>}

RECURSIVE JoinSegs(_)
JoinSegs(q) ==
    IF q = <<>> THEN <<>>
    ELSE IF Len(q) = 1 THEN q[1]
    ELSE q[1] \o <<"/">> \o JoinSegs(Tail(q))

DestPaths == {JoinSegs(q) : q \in SeqsUpTo(Segs, MaxSegs)}

\* the provisioner has not been called
NoCall(f) == [out |-> "not called", before |-> f]

Panicked == prior.out = Panic

\* one call of mkdirp(req); a panic ends the program
Mkdirp ==
    /\ ~Panicked
    /\ LET r == mkdirp(req, fs) IN
           /\ fs' = r.fs
           /\ prior' = [out |-> r.out, before |-> fs]
    /\ reran' = (prior.out = NoErr /\ ~touched)
    /\ touched' = FALSE
    /\ UNCHANGED <<req, nameVars, modVars, sumVars>>

\* another process changes one node of the tree between two calls
Interfere ==
    /\ prior.out # "not called"
    /\ ~touched
    /\ ~Panicked
    /\ \E n \in Nodes, k \in Kinds :
           /\ fs[n] # k
           /\ Consistent([fs EXCEPT ![n] = k])
           /\ fs' = [fs EXCEPT ![n] = k]
    /\ touched' = TRUE
    /\ UNCHANGED <<req, prior, reran, nameVars, modVars, sumVars>>

DirNext == Mkdirp \/ Interfere

(***************************************************************************)
(* Claims about mkdirp                                                     *)
(***************************************************************************)
Prefixes(node) == {SubSeq(node, 1, k) : k \in 1..Len(node)}

\* node and every directory above it exist as directories in f
ExistsAsDir(f, node) == \A n \in Prefixes(node) : KindOf(f, n) \in DirKinds

\* the directory the destination path of the run lies in
ReqParent == Resolve(Dir(req))

\* C8: after a call of mkdirp that returns no error the parent directory of
\* the path exists and is a directory, and a second call on the same path,
\* the tree unchanged in between, returns no error and changes nothing.
C8_MkdirpIdempotent ==
    /\ (prior.out = NoErr /\ ~touched) => ExistsAsDir(fs, ReqParent)
    /\ (reran /\ ~touched) => (prior.out = NoErr /\ fs = prior.before)

C8_Witness ==
    /\ reran /\ ~touched
    /\ req = <<"a", "/", "a", "/", "a">>
    /\ prior = [out |-> NoErr, before |-> fs]
    /\ ExistsAsDir(fs, <<<<"a">>, <<"a">>>>)

\* What a look at node finds in the tree f: "directory", "not a directory"
\* (it is there and is a file), "missing" (it, or a directory on the way to
\* it, is not there), or "unreadable" (a file or a directory that may not be
\* searched stands on the way to it)
Finding(f, node) ==
    LET stops == {k \in 1..Len(node) :
                      LET kind == KindOf(f, SubSeq(node, 1, k)) IN
                      IF k < Len(node) THEN kind \notin {"dir", "rodir"}
                      ELSE kind \notin DirKinds}
    IN  IF stops = {} THEN "directory"
        ELSE LET k == CHOOSE x \in stops : \A y \in stops : x <= y
                 kind == KindOf(f, SubSeq(node, 1, k))
             IN  IF kind = "none" THEN "missing"
                 ELSE IF k = Len(node) THEN "not a directory"
                 ELSE "unreadable"

\* C10: a parent that exists and is not a directory ends the call in a panic,
\* never in a returned error; an inspection that fails otherwise than by
\* "does not exist" returns an error and creates nothing; a missing parent is
\* created with all its missing ancestors, and an error is returned only when
\* that creation fails.
C10_MkdirpOutcomes ==
    (prior.out # "not called" /\ ~touched) =>
        LET found == Finding(prior.before, ReqParent) IN
        /\ found = "not a directory" => (prior.out = Panic /\ fs = prior.before)
        /\ found = "unreadable" => (prior.out = ErrChecking /\ fs = prior.before)
        /\ found = "directory" => (prior.out = NoErr /\ fs = prior.before)
        /\ found = "missing" =>
               /\ prior.out \in {NoErr, ErrCreating}
               /\ prior.out = NoErr =>
                      /\ ExistsAsDir(fs, ReqParent)
                      /\ \A n \in Nodes :
                             fs[n] # prior.before[n] =>
                                 /\ n \in Prefixes(ReqParent)
                                 /\ prior.before[n] = "none"
               /\ prior.out = ErrCreating => ~ExistsAsDir(fs, ReqParent)

C10_Witness ==
    /\ ~touched
    /\ req = <<"a", "/", "a", "/", "a">>
    /\ prior = [out |-> NoErr, before |-> [n \in Nodes |-> "none"]]
    /\ ExistsAsDir(fs, <<<<"a">>, <<"a">>>>)

(***************************************************************************)
(* setLastModified                                                         *)
(***************************************************************************)
\* A Last-Modified header value, already split into its fields.  form is the
\* date format the value is written in; http.TimeFormat is the IMF-fixdate
\* layout "Mon, 02 Jan 2006 15:04:05 GMT".  present = FALSE is the header
\* for which Header.Get returns "".
WeekdayNames == {"Mon", "Tue", "Wed", "Thu", "Fri", "Sat", "Sun"}
MonthNames ==
    <<"Jan", "Feb", "Mar", "Apr", "May", "Jun",
      "Jul", "Aug", "Sep", "Oct", "Nov", "Dec">>

MonthNumber(name) ==
    IF \E i \in 1..Len(MonthNames) : MonthNames[i] = name
    THEN CHOOSE i \in 1..Len(MonthNames) : MonthNames[i] = name
    ELSE 0

IsLeap(year) == year % 4 = 0 /\ (year % 100 # 0 \/ year % 400 = 0)

\* go: time.daysIn
DaysIn(month, year) ==
    IF month = 2 THEN (IF IsLeap(year) THEN 29 ELSE 28)
    ELSE IF month \in {4, 6, 9, 11} THEN 30
    ELSE 31

NoTime == [year |-> 0, month |-> 0, day |-> 0, hour |-> 0, min |-> 0, sec |-> 0]

\* go: time.Parse(http.TimeFormat, header): the layout must match, the names
\* must be names, and every number must be in range; the weekday is not
\* compared with the date
ParseHTTPTime(h) ==
    LET month == MonthNumber(h.mon) IN
    IF /\ h.form = "IMF-fixdate"
       /\ h.wd \in WeekdayNames
       /\ month # 0
       /\ h.day >= 1 /\ h.day <= DaysIn(month, h.year)
       /\ h.hour >= 0 /\ h.hour < 24
       /\ h.min >= 0 /\ h.min < 60
       /\ h.sec >= 0 /\ h.sec < 60
       /\ h.zone = "GMT"
    THEN [ok |-> TRUE,
          t |-> [year |-> h.year, month |-> month, day |-> h.day,
                 hour |-> h.hour, min |-> h.min, sec |-> h.sec]]
    ELSE [ok |-> FALSE, t |-> NoTime]

\* go: os.Chtimes(filename, atime, mtime)
Chtimes(file, atime, mtime) ==
    IF ~file.exists THEN [err |-> "ENOENT", file |-> file]
    ELSE IF ~file.owned THEN [err |-> "EPERM", file |-> file]
    ELSE [err |-> NoErr, file |-> [file EXCEPT !.atime = atime, !.mtime = mtime]]

\* a synchronizer that fails on a header it cannot parse
setLastModified_FailOnBadHeader(header, file) ==
    IF ~header.present THEN [err |-> NoErr, file |-> file]
    ELSE LET parsed == ParseHTTPTime(header) IN
         IF ~parsed.ok THEN [err |-> "parsing time", file |-> file]
         ELSE Chtimes(file, parsed.t, parsed.t)

setLastModified(header, file) ==
    IF ~header.present THEN [err |-> NoErr, file |-> file]
    ELSE LET lastmod == ParseHTTPTime(header) IN
         IF ~lastmod.ok THEN [err |-> NoErr, file |-> file]
         ELSE Chtimes(file, lastmod.t, lastmod.t)

NoLastModified ==
    [present |-> FALSE, form |-> "", wd |-> "", day |-> 0, mon |-> "",
     year |-> 0, hour |-> 0, min |-> 0, sec |-> 0, zone |-> ""]

LastModifiedHeaders ==
    {NoLastModified} \cup
    [present : {TRUE}, form : {"IMF-fixdate", "RFC 850"}, wd : {"Mon", "Mo"},
     day : {0, 1, 29, 31}, mon : {"Jan", "Feb", "Foo"}, year : {2023, 2024},
     hour : {23, 24}, min : {59, 60}, sec : {59, 60}, zone : {"GMT", "UTC"}]

Written == [year |-> 2026, month |-> 1, day |-> 2, hour |-> 3, min |-> 4, sec |-> 5]
Accessed == [year |-> 2026, month |-> 6, day |-> 7, hour |-> 8, min |-> 9, sec |-> 10]

LocalFiles ==
    [exists : {TRUE}, owned : BOOLEAN, atime : {Accessed}, mtime : {Written}]
        \cup {[exists |-> FALSE, owned |-> FALSE, atime |-> NoTime, mtime |-> NoTime]}

\* one call of setLastModified on the response and the file
SetLastModified ==
    /\ lmRet.err = "not called"
    /\ LET r == setLastModified(lmHeader, lmFile) IN
           /\ lmFile' = r.file
           /\ lmRet' = [err |-> r.err, before |-> lmFile]
    /\ UNCHANGED <<lmHeader, nameVars, dirVars, sumVars>>

ModNext == SetLastModified

(***************************************************************************)
(* Claims about setLastModified                                            *)
(***************************************************************************)
\* C9: with a Last-Modified header that is missing or does not parse,
\* setLastModified returns no error and the file is left as it was; with one
\* that parses, access and modification time are both set to the parsed
\* time and the error of that update, if any, is returned.
C9_LastModified ==
    lmRet.err # "not called" =>
        LET parsed == ParseHTTPTime(lmHeader)
            before == lmRet.before
        IN  /\ (~lmHeader.present \/ ~parsed.ok) =>
                   (lmRet.err = NoErr /\ lmFile = before)
            /\ (lmHeader.present /\ parsed.ok) =>
                   /\ (before.exists /\ before.owned) =>
                          /\ lmRet.err = NoErr
                          /\ lmFile.atime = parsed.t
                          /\ lmFile.mtime = parsed.t
                          /\ lmFile.exists /\ lmFile.owned
                   /\ ~before.exists => (lmRet.err = "ENOENT" /\ lmFile = before)
                   /\ (before.exists /\ ~before.owned) =>
                          (lmRet.err = "EPERM" /\ lmFile = before)

C9_Witness ==
    /\ lmHeader.present
    /\ ~ParseHTTPTime(lmHeader).ok
    /\ lmHeader.form = "IMF-fixdate" /\ lmHeader.day = 29 /\ lmHeader.year = 2023
    /\ lmRet = [err |-> NoErr, before |-> lmFile]
    /\ lmFile.mtime = Written

(***************************************************************************)
(* checksum                                                                *)
(***************************************************************************)
Bytes == {"x", "y"}
Hashes == {"h1", "h2"}

\* go: h.Sum(nil): the digest of everything written to the accumulator; two
\* digests are equal exactly when the bytes written are
NilDigest == [nil |-> TRUE, of |-> <<>>]
Sum(written) == [nil |-> FALSE, of |-> written]

Canceled == "context canceled"
ReadError == "read error"
OpenError == "open error"
CloseError == "close error"
Running == "running"

NoSumCall ==
    [h |-> "h1", start |-> <<>>, opened |-> FALSE, off |-> 0,
     copied |-> Running, closes |-> 0]

NoPrev == [has |-> FALSE, start |-> <<>>, b |-> NilDigest, err |-> NoErr]

\* what an accumulator handed to checksum may hold already
UsedBefore == {<<>>, <<"x">>}

SumFiles == [exists : BOOLEAN, data : SeqsUpTo(Bytes, MaxFile)]

\* go: checksum is called, b and err are nil, and os.Open succeeds; the
\* deferred Close is registered and the transfer is made.  The context may
\* be cancelled already.
OpenFile ==
    /\ pc = "idle"
    /\ calls < MaxSumCalls
    /\ sumFile.exists
    /\ \E h \in Hashes, c \in BOOLEAN :
          /\ call' = [h |-> h, start |-> hst[h], opened |-> TRUE, off |-> 0,
                      copied |-> Running, closes |-> 0]
          /\ cancelled' = c
    /\ sumB' = NilDigest
    /\ sumErr' = NoErr
    /\ handles' = handles + 1
    /\ pc' = "copy"
    /\ UNCHANGED <<sumFile, hst, prev, calls, nameVars, dirVars, modVars>>

\* go: checksum is called and os.Open fails (the file is not there, or may
\* not be read): checksum returns at once, before any defer
OpenFails ==
    /\ pc = "idle"
    /\ calls < MaxSumCalls
    /\ \E h \in Hashes :
          call' = [h |-> h, start |-> hst[h], opened |-> FALSE, off |-> 0,
                   copied |-> Running, closes |-> 0]
    /\ cancelled' = FALSE
    /\ sumB' = NilDigest
    /\ sumErr' = OpenError
    /\ pc' = "done"
    /\ UNCHANGED <<sumFile, hst, handles, prev, calls, nameVars, dirVars, modVars>>

\* the caller cancels the context while the copy runs
Cancel ==
    /\ pc = "copy"
    /\ ~cancelled
    /\ cancelled' = TRUE
    /\ UNCHANGED <<sumFile, hst, pc, call, sumB, sumErr, handles, prev, calls,
                   nameVars, dirVars, modVars>>

\* transfer.copy, at the top of its loop: the context is done
CopyCancelled ==
    /\ pc = "copy"
    /\ cancelled
    /\ call' = [call EXCEPT !.copied = Canceled]
    /\ pc' = "copied"
    /\ UNCHANGED <<sumFile, hst, cancelled, sumB, sumErr, handles, prev, calls,
                   nameVars, dirVars, modVars>>

Remaining == Len(sumFile.data) - call.off

\* transfer.copy, one turn of its loop: Read gives some bytes, which are
\* written to the accumulator
CopyChunk ==
    /\ pc = "copy"
    /\ ~cancelled
    /\ \E nr \in 1..Remaining :
          /\ hst' = [hst EXCEPT ![call.h] =
                        @ \o SubSeq(sumFile.data, call.off + 1, call.off + nr)]
          /\ call' = [call EXCEPT !.off = @ + nr]
    /\ UNCHANGED <<sumFile, pc, cancelled, sumB, sumErr, handles, prev, calls,
                   nameVars, dirVars, modVars>>

\* transfer.copy, one turn of its loop: Read fails, perhaps after giving
\* some bytes, which are written to the accumulator; the loop ends
CopyReadFails ==
    /\ pc = "copy"
    /\ ~cancelled
    /\ \E nr \in 0..Remaining :
          /\ hst' = [hst EXCEPT ![call.h] =
                        @ \o SubSeq(sumFile.data, call.off + 1, call.off + nr)]
          /\ call' = [call EXCEPT !.off = @ + nr, !.copied = ReadError]
    /\ pc' = "copied"
    /\ UNCHANGED <<sumFile, cancelled, sumB, sumErr, handles, prev, calls,
                   nameVars, dirVars, modVars>>

\* transfer.copy, the last turn of its loop: Read reports the end of the
\* file, the loop ends without error
CopyEOF ==
    /\ pc = "copy"
    /\ ~cancelled
    /\ Remaining = 0
    /\ call' = [call EXCEPT !.copied = NoErr]
    /\ pc' = "copied"
    /\ UNCHANGED <<sumFile, hst, cancelled, sumB, sumErr, handles, prev, calls,
                   nameVars, dirVars, modVars>>

\* a checksum that takes the digest whatever copy returned
AfterCopy_SumAnyway ==
    /\ pc = "copied"
    /\ sumErr' = call.copied
    /\ sumB' = Sum(hst[call.h])
    /\ pc' = "exit"
    /\ UNCHANGED <<sumFile, hst, call, cancelled, handles, prev, calls,
                   nameVars, dirVars, modVars>>

\* a checksum that returns on a copy error without closing the file
AfterCopy_LeakOnError ==
    /\ pc = "copied"
    /\ sumErr' = call.copied
    /\ sumB' = IF call.copied # NoErr THEN sumB ELSE Sum(hst[call.h])
    /\ pc' = IF call.copied # NoErr THEN "done" ELSE "exit"
    /\ UNCHANGED <<sumFile, hst, call, cancelled, handles, prev, calls,
                   nameVars, dirVars, modVars>>

\* go: `if _, err = t.copy(); err != nil { return }`, then `b = h.Sum(nil)`
\* and `return`: either way the deferred function runs next
AfterCopy ==
    /\ pc = "copied"
    /\ sumErr' = call.copied
    /\ sumB' = IF call.copied # NoErr THEN sumB ELSE Sum(hst[call.h])
    /\ pc' = "exit"
    /\ UNCHANGED <<sumFile, hst, call, cancelled, handles, prev, calls,
                   nameVars, dirVars, modVars>>

\* go: the deferred `err = f.Close()`: the handle is released, and err is
\* whatever Close returns
DeferredClose ==
    /\ pc = "exit"
    /\ \E e \in {NoErr, CloseError} : sumErr' = e
    /\ handles' = handles - 1
    /\ call' = [call EXCEPT !.closes = @ + 1]
    /\ pc' = "done"
    /\ UNCHANGED <<sumFile, hst, cancelled, sumB, prev, calls,
                   nameVars, dirVars, modVars>>

\* the caller has the results (sumB, sumErr)
SumReturn ==
    /\ pc = "done"
    /\ prev' = [has |-> TRUE, start |-> call.start, b |-> sumB, err |-> sumErr]
    /\ calls' = calls + 1
    /\ pc' = "idle"
    /\ UNCHANGED <<sumFile, hst, call, cancelled, sumB, sumErr, handles,
                   nameVars, dirVars, modVars>>

\* the caller resets an accumulator between two calls (hash.Hash.Reset)
Reset ==
    /\ pc = "idle"
    /\ \E h \in Hashes :
          /\ hst[h] # <<>>
          /\ hst' = [hst EXCEPT ![h] = <<>>]
    /\ UNCHANGED <<sumFile, pc, call, cancelled, sumB, sumErr, handles, prev,
                   calls, nameVars, dirVars, modVars>>

SumNext ==
    \/ OpenFile
    \/ OpenFails
    \/ Cancel
    \/ CopyCancelled
    \/ CopyChunk
    \/ CopyReadFails
    \/ CopyEOF
    \/ AfterCopy
    \/ DeferredClose
    \/ SumReturn
    \/ Reset

(***************************************************************************)
(* Claims about checksum                                                   *)
(***************************************************************************)
Returned == pc = "done"
CopyAborted == call.opened /\ call.copied \in {Canceled, ReadError}

\* C4: when the copy aborts, on a read error or on cancellation, checksum
\* returns the error of the copy, whether or not Close succeeds afterwards.
C4_CopyErrorSurfaces ==
    (Returned /\ CopyAborted) => sumErr = call.copied

\* C5: no partial digest: when the file cannot be opened or the copy stops
\* before the end of the file the digest is nil, and a digest that is not nil
\* is the digest of an accumulator that was fed every byte of the file.
C5_NoPartialDigest ==
    Returned =>
        /\ (~call.opened \/ CopyAborted) => sumB = NilDigest
        /\ sumB # NilDigest =>
               /\ call.opened
               /\ call.copied = NoErr
               /\ call.off = Len(sumFile.data)
               /\ hst[call.h] = call.start \o sumFile.data
               /\ sumB = Sum(call.start \o sumFile.data)

C5_Witness ==
    /\ Returned
    /\ call.copied = Canceled
    /\ call.off > 0 /\ call.off < Len(sumFile.data)
    /\ hst[call.h] # <<>>
    /\ sumB = NilDigest

\* C6: no handle opened by the call is open when checksum returns: after a
\* successful Open the file is closed exactly once, after a failed Open no
\* Close is attempted; at most one handle is open at any time, and only
\* inside a call.
C6_HandleReleased ==
    /\ handles \in {0, 1}
    /\ handles = 1 <=> pc \in {"copy", "copied", "exit"}
    /\ Returned =>
          /\ call.opened => call.closes = 1
          /\ ~call.opened => call.closes = 0

C6_Witness ==
    /\ Returned
    /\ call.copied = Canceled
    /\ call.off > 0 /\ call.off < Len(sumFile.data)
    /\ call.closes = 1
    /\ handles = 0

\* a call that returned a digest and no error
Succeeded(b, err) == err = NoErr /\ b # NilDigest

\* C7 as stated: two successful calls on the unchanged file return identical
\* digests, whatever accumulator each is given, the same one unreset included.
C7_SameDigestAnyAccumulator ==
    (Returned /\ prev.has /\ Succeeded(prev.b, prev.err) /\ Succeeded(sumB, sumErr))
        => sumB = prev.b

\* C7 as amended: two successful calls on the unchanged file return identical
\* digests when the accumulators given to them are in the same state at the
\* start of each call.
C7_SameDigestSameStart ==
    (Returned /\ prev.has /\ Succeeded(prev.b, prev.err) /\ Succeeded(sumB, sumErr)
        /\ call.start = prev.start)
        => sumB = prev.b

C7_Witness ==
    /\ Returned /\ prev.has
    /\ Succeeded(prev.b, prev.err) /\ Succeeded(sumB, sumErr)
    /\ call.start = prev.start
    /\ call.start # <<>>
    /\ Len(sumFile.data) = MaxFile
    /\ sumB = prev.b

(***************************************************************************)
(* Specifications                                                          *)
(***************************************************************************)
\* the filename resolver on every enumerated response
InitName ==
    /\ resp \in NameResps \cup GuessResps
    /\ nfRet = NotCalled
    /\ gRet = NotCalled
    /\ fs = [n \in Nodes |-> "none"]
    /\ req = <<>>
    /\ prior = NoCall(fs)
    /\ reran = FALSE
    /\ touched = FALSE
    /\ lmHeader = NoLastModified
    /\ lmFile = [exists |-> FALSE, owned |-> FALSE, atime |-> NoTime, mtime |-> NoTime]
    /\ lmRet = [err |-> "not called", before |-> lmFile]
    /\ sumFile = [exists |-> FALSE, data |-> <<>>]
    /\ hst = [h \in Hashes |-> <<>>]
    /\ pc = "idle"
    /\ call = NoSumCall
    /\ cancelled = FALSE
    /\ sumB = NilDigest
    /\ sumErr = NoErr
    /\ handles = 0
    /\ prev = NoPrev
    /\ calls = 0

SpecName == InitName /\ [][NameNext]_vars

\* the directory provisioner on every enumerated tree and destination path
InitDir ==
    /\ fs \in FSStates
    /\ req \in DestPaths
    /\ prior = NoCall(fs)
    /\ reran = FALSE
    /\ touched = FALSE
    /\ resp = [path |-> <<>>, cd |-> NoHeader]
    /\ nfRet = NotCalled
    /\ gRet = NotCalled
    /\ lmHeader = NoLastModified
    /\ lmFile = [exists |-> FALSE, owned |-> FALSE, atime |-> NoTime, mtime |-> NoTime]
    /\ lmRet = [err |-> "not called", before |-> lmFile]
    /\ sumFile = [exists |-> FALSE, data |-> <<>>]
    /\ hst = [h \in Hashes |-> <<>>]
    /\ pc = "idle"
    /\ call = NoSumCall
    /\ cancelled = FALSE
    /\ sumB = NilDigest
    /\ sumErr = NoErr
    /\ handles = 0
    /\ prev = NoPrev
    /\ calls = 0

SpecDir == InitDir /\ [][DirNext]_vars

\* the timestamp synchronizer on every enumerated header and local file
InitMod ==
    /\ lmHeader \in LastModifiedHeaders
    /\ lmFile \in LocalFiles
    /\ lmRet = [err |-> "not called", before |-> lmFile]
    /\ resp = [path |-> <<>>, cd |-> NoHeader]
    /\ nfRet = NotCalled
    /\ gRet = NotCalled
    /\ fs = [n \in Nodes |-> "none"]
    /\ req = <<>>
    /\ prior = NoCall(fs)
    /\ reran = FALSE
    /\ touched = FALSE
    /\ sumFile = [exists |-> FALSE, data |-> <<>>]
    /\ hst = [h \in Hashes |-> <<>>]
    /\ pc = "idle"
    /\ call = NoSumCall
    /\ cancelled = FALSE
    /\ sumB = NilDigest
    /\ sumErr = NoErr
    /\ handles = 0
    /\ prev = NoPrev
    /\ calls = 0

SpecMod == InitMod /\ [][ModNext]_vars

\* checksum on every enumerated file, with fresh and used accumulators and
\* every order of calls, resets, cancellations and I/O errors
InitSum ==
    /\ sumFile \in SumFiles
    /\ hst \in [Hashes -> UsedBefore]
    /\ pc = "idle"
    /\ call = NoSumCall
    /\ cancelled = FALSE
    /\ sumB = NilDigest
    /\ sumErr = NoErr
    /\ handles = 0
    /\ prev = NoPrev
    /\ calls = 0
    /\ resp = [path |-> <<>>, cd |-> NoHeader]
    /\ nfRet = NotCalled
    /\ gRet = NotCalled
    /\ fs = [n \in Nodes |-> "none"]
    /\ req = <<>>
    /\ prior = NoCall(fs)
    /\ reran = FALSE
    /\ touched = FALSE
    /\ lmHeader = NoLastModified
    /\ lmFile = [exists |-> FALSE, owned |-> FALSE, atime |-> NoTime, mtime |-> NoTime]
    /\ lmRet = [err |-> "not called", before |-> lmFile]

SpecSum == InitSum /\ [][SumNext]_vars

====
